---- MODULE Spec2Model ----
(***************************************************************************)
(* Model of src/src/lib.rs of typst-languagetool: the StringCursor (char   *)
(* index <-> UTF-8 byte offset), TextWithPosition (line/column window),    *)
(* FileCollector (suggestions -> diagnostics) and LanguageTool::new (the   *)
(* backend selection).                                                     *)
(*                                                                         *)
(* A text is a sequence of characters; a character is one of               *)
(*   "a"  (U+0061, 1 byte)   "LF" ('\n', 1 byte)   "CR" ('\r', 1 byte)      *)
(*   "O"  (U+00D6 'Ö', 2 bytes in UTF-8).                                   *)
(* Byte offsets are derived from the encoded lengths, so that a byte       *)
(* offset and a char index differ as soon as the text holds an "O".        *)
(***************************************************************************)
EXTENDS Integers, Sequences, FiniteSets, TLC

VARIABLES
    text,          \* StringCursor.text
    utf_8_index,   \* StringCursor.utf_8_index
    char_index,    \* StringCursor.char_index
    call,          \* history: the last utf_8_offset call (arguments, state before, result)
    panicked,      \* a slice of the text was taken off a char boundary: the thread panicked
    line,          \* TextWithPosition.line
    column,        \* TextWithPosition.column
    startLine,     \* history: the line the window was constructed with
    pos,           \* history: the last get_position call and the Position it returned
    mono,          \* history: no get_position call so far resolved to a smaller byte offset
    cstate,        \* FileCollector life cycle: "none", "open", "finished", "panicked"
    world,         \* the World: file id -> source text, or SourceErr
    fileId,        \* history: the file id the collector was constructed with
    source,        \* FileCollector.source
    diagnostics,   \* FileCollector.diagnostics
    supplied,      \* history: one entry per add call, the (suggestion, mapper result) pairs it got
    finished,      \* the pair returned by FileCollector::finish
    features,      \* the cargo features the crate was built with
    lt,            \* the result of the last LanguageTool::new
    newArgs,       \* history: the arguments of the last LanguageTool::new
    backendCalls,  \* history: the calls the backend of lt received, with what it returned
    fwd            \* history: the last capability call on lt and the result it gave

vars == <<text, utf_8_index, char_index, call, panicked, line, column, startLine, pos, mono,
          cstate, world, fileId, source, diagnostics, supplied, finished,
          features, lt, newArgs, backendCalls, fwd>>

cursorVars == <<text, utf_8_index, char_index, call, panicked>>
windowVars == <<line, column, startLine, pos, mono>>
collectorVars == <<cstate, world, fileId, source, diagnostics, supplied, finished>>
dispatcherVars == <<features, lt, newArgs, backendCalls, fwd>>

\* ---------------------------------------------------------------- bounds
MaxLen == 3
MaxStartLine == 1
MaxCounter == 4

Alphabet == {"a", "LF", "CR", "O"}

RECURSIVE SeqsUpTo(_, _)
SeqsUpTo(S, n) ==
    IF n = 0 THEN {<<>>}
    ELSE LET shorter == SeqsUpTo(S, n - 1)
         IN shorter \cup {Append(s, x) : s \in {q \in shorter : Len(q) = n - 1}, x \in S}

Texts == SeqsUpTo(Alphabet, MaxLen)
Targets == 0 .. (MaxLen + 2)

\* ---------------------------------------------------------------- Option
None == <<>>
Some(x) == <<x>>
UnwrapOr_zero(o, d) == IF o = None THEN 0 ELSE o[1]
UnwrapOr(o, d) == IF o = None THEN d ELSE o[1]

\* ---------------------------------------------------------------- str
\* char::len_utf8
LenUtf8(ch) == IF ch = "O" THEN 2 ELSE 1

\* str::len of the string made of the characters s
RECURSIVE ByteLen(_)
ByteLen(s) == IF s = <<>> THEN 0 ELSE LenUtf8(Head(s)) + ByteLen(Tail(s))

\* str::is_char_boundary
IsCharBoundary(t, u) == \E k \in 0 .. Len(t) : ByteLen(SubSeq(t, 1, k)) = u

\* number of characters that start before byte offset u
CharsBefore(t, u) == Cardinality({k \in 1 .. Len(t) : ByteLen(SubSeq(t, 1, k - 1)) < u})

\* text[a..b].chars(); the slice panics unless a <= b, both char boundaries
SliceOk(t, a, b) == a <= b /\ IsCharBoundary(t, a) /\ IsCharBoundary(t, b)
Slice(t, a, b) == SubSeq(t, CharsBefore(t, a) + 1, CharsBefore(t, b))

RECURSIVE Reverse(_)
Reverse(s) == IF s = <<>> THEN <<>> ELSE Append(Reverse(Tail(s)), Head(s))

\* Iterator::take
Take_all(s, n) == s
Take(s, n) == SubSeq(s, 1, IF n < Len(s) THEN n ELSE Len(s))

\* ---------------------------------------------------------------- StringCursor
\* matches!(c, '\n' | '\r')
IsNewline_onlyLF(ch) == ch = "LF"
IsNewline(ch) == ch \in {"LF", "CR"}

\* One iteration of the forward loop: either the early return, or the advance.
ForwardBody_consume(ch, u, c, stop) ==
    IF stop /\ IsNewline(ch)
    THEN [early |-> TRUE, u |-> u + LenUtf8(ch), c |-> c + 1]
    ELSE [early |-> FALSE, u |-> u + LenUtf8(ch), c |-> c + 1]
ForwardBody_noCharStep(ch, u, c, stop) ==
    IF stop /\ IsNewline(ch)
    THEN [early |-> TRUE, u |-> u, c |-> c]
    ELSE [early |-> FALSE, u |-> u + LenUtf8(ch), c |-> c]
ForwardBody_byte1(ch, u, c, stop) ==
    IF stop /\ IsNewline(ch)
    THEN [early |-> TRUE, u |-> u, c |-> c]
    ELSE [early |-> FALSE, u |-> u + 1, c |-> c + 1]
ForwardBody(ch, u, c, stop) ==
    IF stop /\ IsNewline(ch)
    THEN [early |-> TRUE, u |-> u, c |-> c]
    ELSE [early |-> FALSE, u |-> u + LenUtf8(ch), c |-> c + 1]

\* One iteration of the backward loop.
BackwardBody_byte1(ch, u, c, stop) ==
    IF stop /\ IsNewline(ch)
    THEN [early |-> TRUE, u |-> u, c |-> c]
    ELSE [early |-> FALSE, u |-> u - 1, c |-> c - 1]
BackwardBody_noStop(ch, u, c, stop) ==
    [early |-> FALSE, u |-> u - LenUtf8(ch), c |-> c - 1]
BackwardBody(ch, u, c, stop) ==
    IF stop /\ IsNewline(ch)
    THEN [early |-> TRUE, u |-> u, c |-> c]
    ELSE [early |-> FALSE, u |-> u - LenUtf8(ch), c |-> c - 1]

\* for c in <chars> { ... } over the characters the iterator yields
RECURSIVE ForwardLoop(_, _, _, _)
ForwardLoop(chars, u, c, stop) ==
    IF chars = <<>> THEN [early |-> FALSE, u |-> u, c |-> c]
    ELSE LET r == ForwardBody(Head(chars), u, c, stop)
         IN IF r.early THEN r ELSE ForwardLoop(Tail(chars), r.u, r.c, stop)

RECURSIVE BackwardLoop(_, _, _, _)
BackwardLoop(chars, u, c, stop) ==
    IF chars = <<>> THEN [early |-> FALSE, u |-> u, c |-> c]
    ELSE LET r == BackwardBody(Head(chars), u, c, stop)
         IN IF r.early THEN r ELSE BackwardLoop(Tail(chars), r.u, r.c, stop)

\* (self.char_index == char_index).then_some(self.utf_8_index)
ThenSome_always(c, target, u) == Some(u)
ThenSome(c, target, u) == IF c = target THEN Some(u) ELSE None

\* StringCursor::utf_8_offset: the result and the cursor it leaves
utf_8_offset(t, u, c, target, stop) ==
    LET r == IF c < target
             THEN ForwardLoop(Take(Slice(t, u, ByteLen(t)), target - c), u, c, stop)
             ELSE IF c > target
             THEN BackwardLoop(Take(Reverse(Slice(t, 0, u)), c - target), u, c, stop)
             ELSE [early |-> FALSE, u |-> u, c |-> c]
    IN [ret |-> IF r.early THEN Some(r.u) ELSE ThenSome(r.c, target, r.u),
        u |-> r.u, c |-> r.c,
        panic |-> \/ c < target /\ ~SliceOk(t, u, ByteLen(t))
                  \/ c > target /\ ~SliceOk(t, 0, u)]

NoCall == [made |-> FALSE]

\* StringCursor::new, TextWithPosition not in use
CursorNew ==
    /\ text \in Texts
    /\ utf_8_index = 0
    /\ char_index = 0
    /\ call = NoCall
    /\ panicked = FALSE

\* a call of StringCursor::utf_8_offset
Utf8Offset ==
    /\ ~panicked
    /\ \E target \in Targets, stop \in BOOLEAN :
        \E r \in {utf_8_offset(text, utf_8_index, char_index, target, stop)} :
           IF r.panic
           THEN /\ panicked' = TRUE
                /\ UNCHANGED <<utf_8_index, char_index, call>>
           ELSE /\ utf_8_index' = r.u
                /\ char_index' = r.c
                /\ call' = [made |-> TRUE, t |-> target, f |-> stop,
                            pre_u |-> utf_8_index, pre_c |-> char_index, ret |-> r.ret,
                            repeated |-> call.made /\ call.t = target /\ call.f = stop]
                /\ UNCHANGED panicked
    /\ UNCHANGED <<text, windowVars, collectorVars, dispatcherVars>>

\* ---------------------------------------------------------------- TextWithPosition
\* the forward match on c: '\n' => line += 1, column = 0; _ => column += 1
ForwardArm_bytes(ch, l, col) ==
    IF ch = "LF" THEN [line |-> l + 1, column |-> 0]
    ELSE [line |-> l, column |-> col + LenUtf8(ch)]
ForwardArm(ch, l, col) ==
    IF ch = "LF" THEN [line |-> l + 1, column |-> 0]
    ELSE [line |-> l, column |-> col + 1]

\* the backward match on c: '\n' => line -= 1, column = 1; _ => column -= 1
BackwardArm(ch, l, col) ==
    IF ch = "LF" THEN [line |-> l - 1, column |-> 1]
    ELSE [line |-> l, column |-> col - 1]

RECURSIVE ForwardCount(_, _, _)
ForwardCount(chars, l, col) ==
    IF chars = <<>> THEN [line |-> l, column |-> col]
    ELSE LET r == ForwardArm(Head(chars), l, col)
         IN ForwardCount(Tail(chars), r.line, r.column)

\* line and column are usize: `-= 1` at 0 is an arithmetic overflow, a panic
\* of the build with overflow checks (a wrap to 2^64 - 1 without them)
RECURSIVE BackwardCount(_, _, _)
BackwardCount(chars, l, col) ==
    IF chars = <<>> THEN [line |-> l, column |-> col, underflow |-> FALSE]
    ELSE LET r == BackwardArm(Head(chars), l, col)
         IN IF r.line < 0 \/ r.column < 0
            THEN [line |-> r.line, column |-> r.column, underflow |-> TRUE]
            ELSE BackwardCount(Tail(chars), r.line, r.column)

\* the guard of the backward branch: `else if end > start`
BackwardGuard_less(start, end) == end < start
BackwardGuard(start, end) == end > start

\* TextWithPosition::get_position: the Position, the counters and the cursor it leaves
get_position(t, u, c, l, col, target, stop) ==
    LET start == u
        r == utf_8_offset(t, u, c, target, stop)
        end == UnwrapOr(r.ret, ByteLen(t))
        backward == ~(start < end) /\ BackwardGuard(start, end)
        lc == IF start < end THEN ForwardCount(Slice(t, start, end), l, col)
              ELSE IF backward THEN BackwardCount(Slice(t, end, start), l, col)
              ELSE [line |-> l, column |-> col]
    IN [start |-> start, end |-> end, u |-> r.u, c |-> r.c,
        none |-> r.ret = None,
        panic |-> \/ r.panic
                  \/ start < end /\ ~SliceOk(t, start, end)
                  \/ backward /\ (~SliceOk(t, end, start) \/ lc.underflow),
        line |-> lc.line, column |-> lc.column,
        position |-> [utf_8 |-> end, line |-> lc.line, column |-> lc.column]]

NoPos == [made |-> FALSE]

\* TextWithPosition::new (line 0) and TextWithPosition::new_with_line
WindowNew ==
    /\ text \in Texts
    /\ utf_8_index = 0
    /\ char_index = 0
    /\ call = NoCall
    /\ panicked = FALSE
    /\ startLine \in 0 .. MaxStartLine
    /\ line = startLine
    /\ column = 0
    /\ pos = NoPos
    /\ mono = TRUE

\* a call of TextWithPosition::get_position
GetPosition ==
    /\ ~panicked
    /\ \E target \in Targets, stop \in BOOLEAN :
        \E r \in {get_position(text, utf_8_index, char_index, line, column, target, stop)} :
           IF r.panic
           THEN /\ panicked' = TRUE
                /\ UNCHANGED <<utf_8_index, char_index, line, column, pos, mono>>
           ELSE /\ r.line <= startLine + MaxCounter
                /\ r.column <= MaxCounter
                /\ utf_8_index' = r.u
                /\ char_index' = r.c
                /\ line' = r.line
                /\ column' = r.column
                /\ pos' = [made |-> TRUE, start |-> r.start, end |-> r.end, none |-> r.none,
                           preLine |-> line, preColumn |-> column,
                           position |-> r.position]
                /\ mono' = (mono /\ r.start <= r.end)
                /\ UNCHANGED panicked
    /\ UNCHANGED <<text, call, startLine, collectorVars, dispatcherVars>>

\* ---------------------------------------------------------------- FileCollector
MaxBatch == 3
MaxAdds == 2

FileIds == {"f1", "f2"}
SourceErr == "FileError"
Worlds == { [id \in FileIds |-> IF id = "f1" THEN <<"a", "a", "a">> ELSE <<"O", "a">>],
            [id \in FileIds |-> IF id = "f1" THEN <<"O", "a">> ELSE SourceErr] }

\* struct Suggestion
Suggestions ==
    { [start |-> 0, end |-> 1, message |-> "m1", replacements |-> <<"x">>,
       rule_description |-> "d1", rule_id |-> "R1"],
      [start |-> 1, end |-> 2, message |-> "m2", replacements |-> <<>>,
       rule_description |-> "d2", rule_id |-> "R2"] }

\* the Vec<Range<usize>> values Mapping::location may return for the source
\* src (convert.rs, by its contract: zero, one or several byte ranges, never
\* outside the source, never splitting a character): no range, or the range
\* of the first character and the range of the last one
Locations(src) ==
    { <<>>,
      <<[start |-> 0, end |-> LenUtf8(src[1])],
        [start |-> ByteLen(src) - LenUtf8(src[Len(src)]), end |-> ByteLen(src)]>> }

\* a Mapping, as far as add uses it: the result of location for each Suggestion
Mappings(src) == [Suggestions -> Locations(src)]

\* the closure of map: the Diagnostic built from one Suggestion
MakeDiagnostic_inclusiveEnd(suggestion, mapping) ==
    [locations |-> [i \in DOMAIN mapping[suggestion] |->
                      [start |-> mapping[suggestion][i].start,
                       end |-> mapping[suggestion][i].end + 1]],
     message |-> suggestion.message,
     replacements |-> suggestion.replacements,
     rule_description |-> suggestion.rule_description,
     rule_id |-> suggestion.rule_id]
MakeDiagnostic(suggestion, mapping) ==
    [locations |-> mapping[suggestion],
     message |-> suggestion.message,
     replacements |-> suggestion.replacements,
     rule_description |-> suggestion.rule_description,
     rule_id |-> suggestion.rule_id]

\* the closure of filter: diagnostic.locations.is_empty().not()
KeepDiagnostic_all(d) == TRUE
KeepDiagnostic(d) == d.locations # <<>>

\* suggestions.iter().map(..).filter(..), in iteration order
RECURSIVE MapFilter(_, _)
MapFilter(batch, mapping) ==
    IF batch = <<>> THEN <<>>
    ELSE LET d == MakeDiagnostic(Head(batch), mapping)
             rest == MapFilter(Tail(batch), mapping)
         IN IF KeepDiagnostic(d) THEN <<d>> \o rest ELSE rest

\* Vec::extend
Extend_front(v, items) == items \o v
Extend(v, items) == v \o items

\* FileCollector::add: the fields it leaves
add_clobberSource(src, diags, batch, mapping) ==
    [source |-> <<>>, diagnostics |-> Extend(diags, MapFilter(batch, mapping))]
add(src, diags, batch, mapping) ==
    [source |-> src, diagnostics |-> Extend(diags, MapFilter(batch, mapping))]

\* what one add call was handed: each Suggestion with the mapper's result for it
Log(batch, mapping) ==
    [i \in 1 .. Len(batch) |-> [suggestion |-> batch[i], locations |-> mapping[batch[i]]]]

CollectorIdle ==
    /\ cstate = "none"
    /\ fileId = "f1"
    /\ source = <<>>
    /\ diagnostics = <<>>
    /\ supplied = <<>>
    /\ finished = <<>>

\* FileCollector::new: world.source(file_id).unwrap()
New ==
    /\ cstate = "none"
    /\ \E id \in FileIds :
        /\ fileId' = id
        /\ IF world[id] = SourceErr
           THEN /\ cstate' = "panicked"
                /\ UNCHANGED <<source, diagnostics>>
           ELSE /\ cstate' = "open"
                /\ source' = world[id]
                /\ diagnostics' = <<>>
    /\ UNCHANGED <<world, supplied, finished, cursorVars, windowVars, dispatcherVars>>

\* FileCollector::add
Add ==
    /\ cstate = "open"
    /\ Len(supplied) < MaxAdds
    /\ \E batch \in SeqsUpTo(Suggestions, MaxBatch), mapping \in Mappings(source) :
        LET r == add(source, diagnostics, batch, mapping)
        IN /\ source' = r.source
           /\ diagnostics' = r.diagnostics
           /\ supplied' = Append(supplied, Log(batch, mapping))
    /\ UNCHANGED <<cstate, world, fileId, finished, cursorVars, windowVars, dispatcherVars>>

\* FileCollector::finish
Finish ==
    /\ cstate = "open"
    /\ cstate' = "finished"
    /\ finished' = <<source, diagnostics>>
    /\ UNCHANGED <<world, fileId, source, diagnostics, supplied,
                   cursorVars, windowVars, dispatcherVars>>

\* ---------------------------------------------------------------- LanguageTool
AllFeatures == {"bundle-jar", "extern-jar", "remote-server"}

ErrRemoteDisabled == "Feature 'remote-server' is disabled."
ErrBundleDisabled == "Feature 'bundle-jar' is disabled."
ErrJarDisabled == "Features 'bundle-jar' and 'extern-jar' are disabled."
ErrExactlyOne == "Exactly one of 'bundled', 'jar_location' or 'host and port' must be specified."
ErrBackend == "backend constructor failed"

Ok(v) == [ok |-> TRUE, variant |-> v]
Err(e) == [ok |-> FALSE, error |-> e]

\* the `?` on the backend constructor's result
Try(backendOk, v) == IF backendOk THEN Ok(v) ELSE Err(ErrBackend)

\* the pattern (false, None, Some(host), Some(port))
IsRemoteShape_anyJar(bundled, jar, host, port) ==
    ~bundled /\ host # None /\ port # None
IsRemoteShape(bundled, jar, host, port) ==
    ~bundled /\ jar = None /\ host # None /\ port # None

\* the pattern (true, None, None, None)
IsBundledShape(bundled, jar, host, port) ==
    bundled /\ jar = None /\ host = None /\ port = None

\* the pattern (false, Some(path), None, None)
IsPathShape(bundled, jar, host, port) ==
    ~bundled /\ jar # None /\ host = None /\ port = None

\* LanguageTool::new under the features feat; backendOk: the backend constructor succeeds
LanguageToolNew(feat, bundled, jar, host, port, backendOk) ==
    IF IsRemoteShape(bundled, jar, host, port)
    THEN IF "remote-server" \in feat THEN Try(backendOk, "Remote")
         ELSE Err(ErrRemoteDisabled)
    ELSE IF IsBundledShape(bundled, jar, host, port)
    THEN IF "bundle-jar" \in feat THEN Try(backendOk, "JNI")
         ELSE Err(ErrBundleDisabled)
    ELSE IF IsPathShape(bundled, jar, host, port)
    THEN IF "bundle-jar" \in feat \/ "extern-jar" \in feat THEN Try(backendOk, "JNI")
         ELSE Err(ErrJarDisabled)
    ELSE Err(ErrExactlyOne)

NoArgs == [made |-> FALSE]
NoLt == [ok |-> FALSE, error |-> "not constructed"]

NoFwd == [made |-> FALSE]

DispatcherIdle ==
    /\ features = {}
    /\ lt = NoLt
    /\ newArgs = NoArgs
    /\ backendCalls = <<>>
    /\ fwd = NoFwd

\* a call of LanguageTool::new
LtNew ==
    \E bundled \in BOOLEAN, jar \in {None, Some("jar")}, host \in {None, Some("host")},
       port \in {None, Some("port")}, backendOk \in BOOLEAN :
        /\ lt' = LanguageToolNew(features, bundled, jar, host, port, backendOk)
        /\ newArgs' = [made |-> TRUE, bundled |-> bundled, jar_location |-> jar,
                       host |-> host, port |-> port, backendOk |-> backendOk]
        /\ backendCalls' = <<>>
        /\ fwd' = NoFwd
        /\ UNCHANGED <<features, cursorVars, windowVars, collectorVars>>

\* ---------------------------------------------------------------- LanguageToolBackend for LanguageTool
MaxCalls == 2

Langs == {"en", "de"}
WordLists == {<<>>, <<"w">>}
CheckTexts == {"t1", "t2"}

\* anyhow::Result of a backend call: Ok(()) or Err for allow_words and
\* disable_checks, Ok(suggestions) or Err for check_text
BackendFailure == [ok |-> FALSE, error |-> "backend failure"]
UnitResults == {[ok |-> TRUE, value |-> <<>>], BackendFailure}
CheckResults == {[ok |-> TRUE, value |-> <<>>], [ok |-> TRUE, value |-> <<"s1">>], BackendFailure}

\* the call `lt.<op>(lang, arg).await` on the backend of the matched variant;
\* answer is what that backend returns for it
BackendCall(variant, op, lang, arg, answer) ==
    [variant |-> variant, op |-> op, lang |-> lang, arg |-> arg, result |-> answer]

\* LanguageTool::allow_words: self afterwards, the backend calls made, the result
allow_words(self, lang, words, answer) ==
    CASE self.variant = "JNI" ->
            [self |-> self, result |-> answer,
             calls |-> <<BackendCall("JNI", "allow_words", lang, words, answer)>>]
      [] self.variant = "Remote" ->
            [self |-> self, result |-> answer,
             calls |-> <<BackendCall("Remote", "allow_words", lang, words, answer)>>]

\* LanguageTool::disable_checks
disable_checks_asAllowWords(self, lang, checks, answer) ==
    allow_words(self, lang, checks, answer)
disable_checks(self, lang, checks, answer) ==
    CASE self.variant = "JNI" ->
            [self |-> self, result |-> answer,
             calls |-> <<BackendCall("JNI", "disable_checks", lang, checks, answer)>>]
      [] self.variant = "Remote" ->
            [self |-> self, result |-> answer,
             calls |-> <<BackendCall("Remote", "disable_checks", lang, checks, answer)>>]

\* LanguageTool::check_text
check_text(self, lang, txt, answer) ==
    CASE self.variant = "JNI" ->
            [self |-> self, result |-> answer,
             calls |-> <<BackendCall("JNI", "check_text", lang, txt, answer)>>]
      [] self.variant = "Remote" ->
            [self |-> self, result |-> answer,
             calls |-> <<BackendCall("Remote", "check_text", lang, txt, answer)>>]

\* the effect of one capability call on the dispatcher lt
Called(op, lang, arg, r) ==
    /\ lt' = r.self
    /\ backendCalls' = backendCalls \o r.calls
    /\ fwd' = [made |-> TRUE, n |-> (IF fwd.made THEN fwd.n ELSE 0) + 1,
               op |-> op, lang |-> lang, arg |-> arg, result |-> r.result]
    /\ UNCHANGED <<features, newArgs, cursorVars, windowVars, collectorVars>>

\* a call of allow_words on the dispatcher
AllowWords ==
    /\ lt.ok
    /\ Len(backendCalls) < MaxCalls
    /\ \E lang \in Langs, words \in WordLists, answer \in UnitResults :
         Called("allow_words", lang, words, allow_words(lt, lang, words, answer))

\* a call of disable_checks on the dispatcher
DisableChecks ==
    /\ lt.ok
    /\ Len(backendCalls) < MaxCalls
    /\ \E lang \in Langs, checks \in WordLists, answer \in UnitResults :
         Called("disable_checks", lang, checks, disable_checks(lt, lang, checks, answer))

\* a call of check_text on the dispatcher
CheckText ==
    /\ lt.ok
    /\ Len(backendCalls) < MaxCalls
    /\ \E lang \in Langs, txt \in CheckTexts, answer \in CheckResults :
         Called("check_text", lang, txt, check_text(lt, lang, txt, answer))

\* ---------------------------------------------------------------- specifications
CursorIdle ==
    /\ text = <<>>
    /\ utf_8_index = 0
    /\ char_index = 0
    /\ call = NoCall
    /\ panicked = FALSE

WindowIdle ==
    /\ startLine = 0
    /\ line = 0
    /\ column = 0
    /\ pos = NoPos
    /\ mono = TRUE

WorldIdle == world = [id \in FileIds |-> SourceErr]

InitCursor == CursorNew /\ WindowIdle /\ CollectorIdle /\ WorldIdle /\ DispatcherIdle
NextCursor == Utf8Offset
SpecCursor == InitCursor /\ [][NextCursor]_vars

InitWindow == WindowNew /\ CollectorIdle /\ WorldIdle /\ DispatcherIdle
NextWindow == GetPosition
SpecWindow == InitWindow /\ [][NextWindow]_vars

InitCollector ==
    /\ CursorIdle /\ WindowIdle /\ DispatcherIdle
    /\ CollectorIdle
    /\ world \in Worlds
NextCollector == New \/ Add \/ Finish
SpecCollector == InitCollector /\ [][NextCollector]_vars

InitDispatcher ==
    /\ CursorIdle /\ WindowIdle /\ CollectorIdle /\ WorldIdle
    /\ features \in SUBSET AllFeatures
    /\ lt = NoLt
    /\ newArgs = NoArgs
    /\ backendCalls = <<>>
    /\ fwd = NoFwd
NextDispatcher == LtNew \/ AllowWords \/ DisableChecks \/ CheckText
SpecDispatcher == InitDispatcher /\ [][NextDispatcher]_vars

\* ---------------------------------------------------------------- StringCursor properties
\* the byte length of the first i characters of the text
PrefixBytes(i) == ByteLen(SubSeq(text, 1, i))

\* the byte offsets of the character indices 0 .. Len(text), as a seek without
\* stop resolves them from the current cursor state
Resolved(i) == utf_8_offset(text, utf_8_index, char_index, i, FALSE).ret

\* C1: whatever calls were made before, utf_8_offset(i, false) with i within
\* the character count returns Some(byte length of the first i characters):
\* independent of the history, strictly increasing in i, on a char boundary.
C1_SeekIsPrefixByteLength ==
    /\ (call.made /\ ~call.f /\ call.t <= Len(text)) => call.ret = Some(PrefixBytes(call.t))
    /\ ~panicked =>
         /\ \A i \in 0 .. Len(text) : Resolved(i) = Some(PrefixBytes(i))
         /\ \A i, j \in 0 .. Len(text) : i < j => Resolved(i)[1] < Resolved(j)[1]
         /\ \A i \in 0 .. Len(text) : IsCharBoundary(text, Resolved(i)[1])

\* a backward seek without stop, from a later position, landed past a
\* two-byte character: the byte offset is larger than the char index
C1_Witness ==
    /\ call.made /\ ~call.f /\ call.repeated = FALSE
    /\ call.t < call.pre_c
    /\ call.t <= Len(text)
    /\ call.ret = Some(call.t + 1)
    /\ text = <<"O", "LF", "a">>

\* 0-based indices of the newline characters in positions c .. t-1 of the text
NewlinesBetween(c, t) ==
    {k \in c .. (t - 1) : k < Len(text) /\ text[k + 1] \in {"LF", "CR"}}

Min(S) == CHOOSE x \in S : \A y \in S : x <= y
Max(S) == CHOOSE x \in S : \A y \in S : x >= y

\* C2: a forward seek with stop_at_newline that has a '\n' or '\r' between the
\* cached position and the target returns the byte offset of the first such
\* newline and leaves the cursor exactly there, before the newline.
C2_ForwardNewlineStop ==
    (call.made /\ call.f /\ call.t > call.pre_c /\ NewlinesBetween(call.pre_c, call.t) # {})
        => LET k == Min(NewlinesBetween(call.pre_c, call.t))
           IN /\ call.ret = Some(PrefixBytes(k))
              /\ utf_8_index = PrefixBytes(k)
              /\ char_index = k

\* a forward seek from a non-zero position over a two-byte character was
\* halted by a '\r' before a target beyond it
C2_Witness ==
    /\ call.made /\ call.f /\ call.t > call.pre_c
    /\ text = <<"a", "O", "CR">>
    /\ call.pre_c = 1
    /\ call.t > 3
    /\ call.ret = Some(3)
    /\ char_index = 2

\* C3: utf_8_offset(t, false) with t beyond the character count returns None
\* and leaves the cursor at the end of the text; every in-range seek from
\* there still resolves to the right byte offset.
C3_OutOfRangeSeek ==
    (call.made /\ ~call.f /\ call.t > Len(text))
        => /\ call.ret = None
           /\ utf_8_index = ByteLen(text)
           /\ char_index = Len(text)
           /\ \A i \in 0 .. Len(text) :
                utf_8_offset(text, ByteLen(text), Len(text), i, FALSE).ret = Some(PrefixBytes(i))

\* an out-of-range seek on a text with a two-byte character, from the middle
C3_Witness ==
    /\ call.made /\ ~call.f /\ call.t > Len(text)
    /\ call.ret = None
    /\ text = <<"O", "O">>
    /\ call.pre_c = 1
    /\ utf_8_index = 4

\* C4: a call that repeats the previous call's target and flag returns what
\* the previous call returned and leaves the cached indices where they were.
C4_RepeatedSeekIdempotent ==
    [][(call.made /\ call'.made /\ call'.t = call.t /\ call'.f = call.f)
          => (call'.ret = call.ret /\ utf_8_index' = utf_8_index /\ char_index' = char_index)]_vars

\* the repeated call was one halted by a newline short of its target
C4_Witness ==
    /\ call.made /\ call.repeated /\ call.f
    /\ call.ret # None
    /\ char_index < call.t
    /\ call.pre_c = char_index /\ call.pre_u = utf_8_index
    /\ utf_8_index > 0

\* ---------------------------------------------------------------- FileCollector properties
RECURSIVE Flatten(_)
Flatten(batches) == IF batches = <<>> THEN <<>> ELSE Head(batches) \o Flatten(Tail(batches))

\* C5: no Diagnostic held by the collector or returned by finish has an empty
\* locations list.
C5_NoEmptyLocations ==
    /\ \A i \in DOMAIN diagnostics : diagnostics[i].locations # <<>>
    /\ cstate = "finished" => \A i \in DOMAIN finished[2] : finished[2][i].locations # <<>>

\* finish returned after an add that was handed an unmappable Suggestion
C5_Witness ==
    /\ cstate = "finished"
    /\ \E i \in DOMAIN Flatten(supplied) : Flatten(supplied)[i].locations = <<>>
    /\ finished[2] # <<>>

\* the Diagnostics expected from the supplied Suggestions: the mappable ones,
\* in the order supplied
Mappable(e) == e.locations # <<>>
ExpectedDiagnostics ==
    LET kept == SelectSeq(Flatten(supplied), Mappable)
    IN [i \in 1 .. Len(kept) |->
          [locations |-> kept[i].locations,
           message |-> kept[i].suggestion.message,
           replacements |-> kept[i].suggestion.replacements,
           rule_description |-> kept[i].suggestion.rule_description,
           rule_id |-> kept[i].suggestion.rule_id]]

\* C6: the diagnostics are exactly the mappable Suggestions, once each, in the
\* order of the add calls and of the Suggestions within a call, with the
\* mapper's ranges and the Suggestion's fields; an unmappable Suggestion does
\* not abort its batch.
C6_DiagnosticsCompleteInOrder ==
    /\ cstate = "open" => diagnostics = ExpectedDiagnostics
    /\ cstate = "finished" => finished[2] = ExpectedDiagnostics

\* two add calls; the second batch has an unmappable Suggestion between two
\* mappable ones, and the first batch a different mappable Suggestion
C6_Witness ==
    /\ cstate = "finished"
    /\ Len(supplied) = 2
    /\ Len(supplied[1]) = 1 /\ supplied[1][1].locations # <<>>
    /\ Len(supplied[2]) = 3
    /\ supplied[2][1].locations # <<>>
    /\ supplied[2][2].locations = <<>>
    /\ supplied[2][3].locations # <<>>
    /\ supplied[1][1].suggestion # supplied[2][1].suggestion
    /\ Len(finished[2]) = 3

\* C7: the source the collector holds, and the one finish returns, is the text
\* world.source(file_id) gave at construction, whatever was added.
C7_SourceUnchanged ==
    /\ cstate = "open" => source = world[fileId]
    /\ cstate = "finished" => finished[1] = world[fileId]

\* finish returned the two-byte source after two non-empty add calls
C7_Witness ==
    /\ cstate = "finished"
    /\ Len(supplied) = 2 /\ supplied[1] # <<>> /\ supplied[2] # <<>>
    /\ finished[1] = <<"O", "a">>
    /\ finished[2] # <<>>

\* ---------------------------------------------------------------- LanguageTool properties
HostOrPort == newArgs.host # None \/ newArgs.port # None
OnlyBundled == newArgs.bundled /\ newArgs.jar_location = None /\ ~HostOrPort
OnlyPath == ~newArgs.bundled /\ newArgs.jar_location # None /\ ~HostOrPort
OnlyRemote ==
    ~newArgs.bundled /\ newArgs.jar_location = None
        /\ newArgs.host # None /\ newArgs.port # None

\* exactly one shape is supplied and its capability is compiled in
Selectable ==
    \/ OnlyBundled /\ "bundle-jar" \in features
    \/ OnlyPath /\ ("bundle-jar" \in features \/ "extern-jar" \in features)
    \/ OnlyRemote /\ "remote-server" \in features

ConfigurationErrors == {ErrRemoteDisabled, ErrBundleDisabled, ErrJarDisabled, ErrExactlyOne}

\* C8: LanguageTool::new succeeds only for exactly one supplied shape whose
\* capability is compiled in, then with the matching variant; none, several or
\* half a shape, or a shape without its capability, is a configuration error.
C8_NewSelectsExactlyOne ==
    newArgs.made =>
        /\ lt.ok => Selectable
        /\ ~Selectable => (~lt.ok /\ lt.error \in ConfigurationErrors)
        /\ (OnlyBundled \/ OnlyPath \/ OnlyRemote) \/ (~lt.ok /\ lt.error = ErrExactlyOne)
        /\ lt.ok => lt.variant = (IF OnlyRemote THEN "Remote" ELSE "JNI")
        /\ (Selectable /\ newArgs.backendOk) => lt.ok

\* a remote backend was built in a build that also has the jar capabilities
C8_Witness ==
    /\ newArgs.made
    /\ lt.ok /\ lt.variant = "Remote"
    /\ features = AllFeatures

\* ---------------------------------------------------------------- TextWithPosition properties
\* the characters get_position moved back over: text[end..start]
BackSpan == Slice(text, pos.end, pos.start)
LFsIn(s) == {i \in DOMAIN s : s[i] = "LF"}

\* C9: a get_position call that resolves to a smaller byte offset decrements
\* line once per '\n' of the span moved over, sets column to 1 on such a '\n'
\* and decrements column once per other character; the Position carries them.
C9_BackwardBookkeeping ==
    (pos.made /\ pos.end < pos.start)
        => /\ line = pos.preLine - Cardinality(LFsIn(BackSpan))
           /\ column = (IF LFsIn(BackSpan) = {}
                        THEN pos.preColumn - Len(BackSpan)
                        ELSE 1 - (Len(BackSpan) - Max(LFsIn(BackSpan))))
           /\ pos.position.line = line
           /\ pos.position.column = column

\* the characters before the returned byte offset: text[..utf_8]
Before == Slice(text, 0, pos.position.utf_8)

\* C10: while no call resolved to a smaller byte offset, the Position has
\* line = start line + number of '\n' before utf_8 and column = number of
\* characters since the last '\n' (or the start); '\r' is a column character.
C10_ForwardBookkeeping ==
    (pos.made /\ mono)
        => /\ pos.position.line = startLine + Cardinality(LFsIn(Before))
           /\ pos.position.column =
                Len(Before) - (IF LFsIn(Before) = {} THEN 0 ELSE Max(LFsIn(Before)))
           /\ line = pos.position.line
           /\ column = pos.position.column

\* a window that starts at line 1, past a '\n', a two-byte character and a '\r'
C10_Witness ==
    /\ pos.made /\ mono
    /\ startLine = 1
    /\ text = <<"LF", "O", "CR">>
    /\ pos.position = [utf_8 |-> 4, line |-> 2, column |-> 2]
    /\ pos.start > 0

\* C11: a get_position call whose character index the cursor reports as out
\* of range returns the byte length of the text as utf_8, and leaves the
\* cursor's cached byte offset (the start of the next scan) at that same end.
C11_OutOfRangePosition ==
    (pos.made /\ pos.none)
        => /\ pos.position.utf_8 = ByteLen(text)
           /\ utf_8_index = pos.position.utf_8
           /\ char_index = Len(text)

\* an out-of-range query on a text whose byte length exceeds its character
\* count, made from the middle of the text
C11_Witness ==
    /\ pos.made /\ pos.none
    /\ text = <<"a", "O", "LF">>
    /\ pos.start = 1
    /\ pos.position.utf_8 = 4

\* ---------------------------------------------------------------- StringCursor properties, continued
SingleByteText == \A k \in DOMAIN text : text[k] \in {"a", "LF", "CR"}

\* C12: on a text of single-byte characters the cached char index and byte
\* offset are equal in every reachable state, and a seek without stop to an
\* index within the text returns that index as the byte offset.
C12_SingleByteIdentity ==
    SingleByteText
        => /\ char_index = utf_8_index
           /\ (call.made /\ ~call.f /\ call.t <= Len(text)) => call.ret = Some(call.t)
           /\ ~panicked => \A i \in 0 .. Len(text) : Resolved(i) = Some(i)

\* a seek without stop went back over a '\r' and a '\n' of a single-byte text
C12_Witness ==
    /\ SingleByteText
    /\ text = <<"a", "LF", "CR">>
    /\ call.made /\ ~call.f
    /\ call.pre_c = 3
    /\ call.ret = Some(1)

\* C13: in every reachable state the cached byte offset lies within the text,
\* on a character boundary, and the cached char index is the number of
\* characters before it.
C13_CursorInvariant ==
    /\ ~panicked
    /\ 0 <= utf_8_index /\ utf_8_index <= ByteLen(text)
    /\ IsCharBoundary(text, utf_8_index)
    /\ char_index \in 0 .. Len(text)
    /\ utf_8_index = PrefixBytes(char_index)

\* a seek that returned None, made from the position in front of a '\r', in a
\* text with two-byte characters
C13_Witness ==
    /\ call.made /\ call.ret = None
    /\ text = <<"O", "CR", "O">>
    /\ call.pre_c = 1 /\ call.pre_u = 2
    /\ ~call.f
    /\ utf_8_index = 5 /\ char_index = 3

\* C16: a backward seek with stop_at_newline that has a '\n' or '\r' between
\* the target and the cached position returns the byte offset just after the
\* last such newline and leaves the cursor there; with the newline right
\* before the cached position the cursor does not move.
C16_BackwardNewlineStop ==
    (call.made /\ call.f /\ call.t < call.pre_c /\ NewlinesBetween(call.t, call.pre_c) # {})
        => LET k == Max(NewlinesBetween(call.t, call.pre_c))
           IN /\ call.ret = Some(PrefixBytes(k + 1))
              /\ utf_8_index = PrefixBytes(k + 1)
              /\ char_index = k + 1
              /\ (k + 1 = call.pre_c) =>
                    (call.ret = Some(call.pre_u) /\ utf_8_index = call.pre_u
                        /\ char_index = call.pre_c)

\* a backward seek over a two-byte character was halted after a '\n'
C16_Witness ==
    /\ call.made /\ call.f /\ call.t < call.pre_c
    /\ text = <<"a", "LF", "O">>
    /\ call.pre_c = 3 /\ call.pre_u = 4
    /\ call.t = 0
    /\ call.ret = Some(2)
    /\ char_index = 2

\* C17: a seek ends between the cached char index it started from and its
\* target: it moves only towards the target and steps over no more than the
\* distance to it; the byte offset moves the same way.
C17_SeekStaysBetween ==
    call.made
        => /\ (call.pre_c <= call.t) =>
                (call.pre_c <= char_index /\ char_index <= call.t /\ call.pre_u <= utf_8_index)
           /\ (call.pre_c >= call.t) =>
                (call.t <= char_index /\ char_index <= call.pre_c /\ utf_8_index <= call.pre_u)

\* a forward seek from the middle of the text that reached its target short
\* of the end of the text
C17_Witness ==
    /\ call.made /\ ~call.f
    /\ call.pre_c = 1
    /\ call.t = 2 /\ char_index = 2
    /\ Len(text) = 3
    /\ text[2] = "O"

\* ---------------------------------------------------------------- TextWithPosition properties, continued
\* C18: no get_position call panics, whatever the text, the start line and
\* the calls made: the slices it takes have bounds in order, within the text
\* and on character boundaries, and line and column never go below 0.
C18_GetPositionNeverPanics ==
    /\ ~panicked
    /\ line >= 0 /\ column >= 0
    /\ pos.made =>
         /\ pos.start <= ByteLen(text) /\ pos.end <= ByteLen(text)
         /\ IsCharBoundary(text, pos.start) /\ IsCharBoundary(text, pos.end)
         /\ pos.position.line >= 0 /\ pos.position.column >= 0

\* a call moved back from the end of the text over two characters and a '\n'
\* to the start, in a window that began at line 0
C18_Witness ==
    /\ ~panicked
    /\ pos.made
    /\ text = <<"LF", "O", "a">>
    /\ startLine = 0
    /\ pos.start = 4 /\ pos.end = 0
    /\ utf_8_index = 0

\* ---------------------------------------------------------------- FileCollector properties, continued
ValidRange(src, r) ==
    /\ r.start <= r.end /\ r.end <= ByteLen(src)
    /\ IsCharBoundary(src, r.start) /\ IsCharBoundary(src, r.end)

C15_ForwardedVerbatim ==
    /\ lt.ok => lt.variant = (IF OnlyRemote THEN "Remote" ELSE "JNI")
    /\ ~fwd.made => backendCalls = <<>>
    /\ fwd.made =>
         /\ lt.ok
         /\ Len(backendCalls) = fwd.n
         /\ LET b == backendCalls[Len(backendCalls)]
            IN /\ b.variant = lt.variant
               /\ b.op = fwd.op
               /\ b.lang = fwd.lang
               /\ b.arg = fwd.arg
               /\ fwd.result = b.result

\* the second call on a Remote dispatcher was a disable_checks that the
\* backend failed, after a check_text that returned a suggestion
C15_Witness ==
    /\ lt.ok /\ lt.variant = "Remote"
    /\ fwd.made /\ fwd.n = 2
    /\ fwd.op = "disable_checks"
    /\ fwd.result = BackendFailure
    /\ backendCalls[1].op = "check_text"
    /\ backendCalls[1].result = [ok |-> TRUE, value |-> <<"s1">>]

====
